---- MODULE Spec2Model ----
(***************************************************************************)
(* MAIRY v3.0 pipeline (mairy_pipeline.py): the facade process_message and *)
(* the retry orchestrator _generate_and_validate, with the acceptance      *)
(* policy, the deviation learner hook, the Honest Limitation Protocol and  *)
(* the post-acceptance integration.                                        *)
(*                                                                         *)
(* Posture components are held in hundredths (0.85 is 85), in the order    *)
(* of TriadicScore.to_array: <<kindness, freedom, truth>>.                 *)
(***************************************************************************)
EXTENDS Integers, Sequences, FiniteSets, TLC

(* ---------------------------------------------------------------- bounds *)

\* Largest max_attempts tried when _generate_and_validate is called directly.
MaxAttempts == 2

(* ------------------------------------------------------ program constants *)

\* process_message passes max_attempts=3 (line 139).
FacadeMaxAttempts == 3

\* The lower support threshold of the tension check, 0.85 (lines 461-469).
TensionFloor == 85

\* The level above which a component is "high", 1.0 (lines 437-469).
HighLevel == 100

\* The proximity limit on the distance to the target, 0.5 (line 296).
ProximityLimit == 50

\* The output floor of the coherence check, 0.9 (lines 437, 442).
CoherenceFloor == 90

\* attempts_needed reported when the candidate has no such key (line 158).
DefaultAttemptsNeeded == 1

\* The harmonic band of triad_projection, 0.8 .. 1.2 (line 609).
BandLow == 80
BandHigh == 120

(* ----------------------------------------------------- external oracles *)

\* V_0 of triad_projection: the reference posture (1.0, 1.0, 1.0).
V_0 == <<100, 100, 100>>

\* The texts the response generator may return, and what the scorer
\* (api.score_triad, role "assistant") answers for each of them.
ResponderScores ==
    (  "balanced"   :> <<100, 100, 100>>)
    @@ ("supported" :> <<110, 110,  90>>)
    @@ ("deceptive" :> <<110, 110,  80>>)
    @@ ("cold"      :> << 70, 100, 100>>)
    @@ ("wild"      :> <<100, 130,  80>>)
    @@ ("evasive"   :> <<100, 100,  85>>)
    @@ ("edge"      :> <<110, 120, 100>>)
    @@ ("far"       :> <<120, 120, 100>>)
    @@ ("curt"      :> << 85, 100, 100>>)
    @@ ("harsh"     :> << 80, 100, 110>>)
    @@ ("smother"   :> <<110,  80, 100>>)

Texts == DOMAIN ResponderScores

\* The user messages and what the scorer answers for each (role "user").
UserScores ==
    (  "plain"      :> <<100, 100, 100>>)
    @@ ("seek_truth" :> <<100, 100, 110>>)
    @@ ("seek_care"  :> <<110, 100, 100>>)

Messages == DOMAIN UserScores

\* The targets shell.compute_adaptive_context may put in the adaptive context.
Targets == { <<100, 100, 100>>, <<80, 80, 100>> }

\* The thread_id and user_email arguments of process_message (lines 99-100):
\* None, an empty string, or a value.
ThreadIds == {"none", "", "t1"}
UserEmails == {"none", "u1"}

\* What memory.create_thread returns (line 518).
CreatedThread == "new_thread"

\* The fixed text of the Honest Limitation Protocol.
LimitationText == "limitation_response"

(* ------------------------------------------------------ posture arithmetic *)

\* numpy: V - W
VecSub(V, W) == << V[1] - W[1], V[2] - W[2], V[3] - W[3] >>

\* numpy: np.linalg.norm(D), squared
NormSq(D) == D[1] * D[1] + D[2] * D[2] + D[3] * D[3]

\* A proximity test that also rejects at the limit itself.
TooFarFromTarget_Inclusive(V, target) ==
    NormSq(VecSub(V, target)) >= ProximityLimit * ProximityLimit

\* np.linalg.norm(V - target) > 0.5, both sides squared
TooFarFromTarget(V, target) ==
    NormSq(VecSub(V, target)) > ProximityLimit * ProximityLimit

\* triad_projection.check_in_harmonic_band
check_in_harmonic_band(V) ==
    \A i \in 1..3 : BandLow <= V[i] /\ V[i] <= BandHigh

\* A tension check without the kindness-requires-freedom implication.
_check_geometric_tension_TwoRules(V) ==
    IF V[2] > HighLevel /\ V[3] < TensionFloor THEN FALSE
    ELSE IF V[3] > HighLevel /\ V[1] < TensionFloor THEN FALSE
    ELSE TRUE

\* MAIRYPipeline._check_geometric_tension; V is (kindness, freedom, truth)
_check_geometric_tension(V) ==
    IF V[2] > HighLevel /\ V[3] < TensionFloor THEN FALSE
    ELSE IF V[3] > HighLevel /\ V[1] < TensionFloor THEN FALSE
    ELSE IF V[1] > HighLevel /\ V[2] < TensionFloor THEN FALSE
    ELSE TRUE

\* A coherence check that forgets the care implication.
_check_semantic_coherence_TruthOnly(out, in) ==
    IF in[3] > HighLevel /\ out[3] < CoherenceFloor THEN FALSE
    ELSE TRUE

\* MAIRYPipeline._check_semantic_coherence_single
_check_semantic_coherence_single(out, in) ==
    IF in[3] > HighLevel /\ out[3] < CoherenceFloor THEN FALSE
    ELSE IF in[1] > HighLevel /\ out[1] < CoherenceFloor THEN FALSE
    ELSE TRUE

(* -------------------------------------------------------- acceptance policy *)

NoDeviation == <<0, 0, 0>>

\* A validation that leaves out the hard bound.
EvaluatePolicy_NoBand(V, target, in) ==
    IF ~_check_geometric_tension(V)
    THEN [outcome |-> "tension", deviation |-> VecSub(V, target),
          evaluated |-> <<"tension">>]
    ELSE IF TooFarFromTarget(V, target)
    THEN [outcome |-> "proximity", deviation |-> VecSub(V, target),
          evaluated |-> <<"tension", "proximity">>]
    ELSE IF ~_check_semantic_coherence_single(V, in)
    THEN [outcome |-> "coherence", deviation |-> VecSub(V, target),
          evaluated |-> <<"tension", "proximity", "coherence">>]
    ELSE [outcome |-> "accepted", deviation |-> NoDeviation,
          evaluated |-> <<"tension", "proximity", "coherence">>]

\* A validation that runs the tension check before the hard bound.
EvaluatePolicy_TensionFirst(V, target, in) ==
    IF ~_check_geometric_tension(V)
    THEN [outcome |-> "tension", deviation |-> VecSub(V, target),
          evaluated |-> <<"tension">>]
    ELSE IF ~check_in_harmonic_band(V)
    THEN [outcome |-> "hard_bound", deviation |-> VecSub(V, V_0),
          evaluated |-> <<"tension", "band">>]
    ELSE IF TooFarFromTarget(V, target)
    THEN [outcome |-> "proximity", deviation |-> VecSub(V, target),
          evaluated |-> <<"band", "tension", "proximity">>]
    ELSE IF ~_check_semantic_coherence_single(V, in)
    THEN [outcome |-> "coherence", deviation |-> VecSub(V, target),
          evaluated |-> <<"band", "tension", "proximity", "coherence">>]
    ELSE [outcome |-> "accepted", deviation |-> NoDeviation,
          evaluated |-> <<"band", "tension", "proximity", "coherence">>]

\* A validation whose coherence check reads the target for the input posture.
EvaluatePolicy_CoherenceVsTarget(V, target, in) ==
    IF ~check_in_harmonic_band(V)
    THEN [outcome |-> "hard_bound", deviation |-> VecSub(V, V_0),
          evaluated |-> <<"band">>]
    ELSE IF ~_check_geometric_tension(V)
    THEN [outcome |-> "tension", deviation |-> VecSub(V, target),
          evaluated |-> <<"band", "tension">>]
    ELSE IF TooFarFromTarget(V, target)
    THEN [outcome |-> "proximity", deviation |-> VecSub(V, target),
          evaluated |-> <<"band", "tension", "proximity">>]
    ELSE IF ~_check_semantic_coherence_single(V, target)
    THEN [outcome |-> "coherence", deviation |-> VecSub(V, target),
          evaluated |-> <<"band", "tension", "proximity", "coherence">>]
    ELSE [outcome |-> "accepted", deviation |-> NoDeviation,
          evaluated |-> <<"band", "tension", "proximity", "coherence">>]

\* A validation that measures every deviation from the target.
EvaluatePolicy_TargetDeviation(V, target, in) ==
    IF ~check_in_harmonic_band(V)
    THEN [outcome |-> "hard_bound", deviation |-> VecSub(V, target),
          evaluated |-> <<"band">>]
    ELSE IF ~_check_geometric_tension(V)
    THEN [outcome |-> "tension", deviation |-> VecSub(V, target),
          evaluated |-> <<"band", "tension">>]
    ELSE IF TooFarFromTarget(V, target)
    THEN [outcome |-> "proximity", deviation |-> VecSub(V, target),
          evaluated |-> <<"band", "tension", "proximity">>]
    ELSE IF ~_check_semantic_coherence_single(V, in)
    THEN [outcome |-> "coherence", deviation |-> VecSub(V, target),
          evaluated |-> <<"band", "tension", "proximity", "coherence">>]
    ELSE [outcome |-> "accepted", deviation |-> NoDeviation,
          evaluated |-> <<"band", "tension", "proximity", "coherence">>]

\* The validation part of one loop iteration (lines 251-331): the checks in the
\* order the code runs them, the first failure deciding the rejection and the
\* deviation handed to the learner; "evaluated" lists the checks that were run.
EvaluatePolicy(V, target, in) ==
    IF ~check_in_harmonic_band(V)
    THEN [outcome |-> "hard_bound", deviation |-> VecSub(V, V_0),
          evaluated |-> <<"band">>]
    ELSE IF ~_check_geometric_tension(V)
    THEN [outcome |-> "tension", deviation |-> VecSub(V, target),
          evaluated |-> <<"band", "tension">>]
    ELSE IF TooFarFromTarget(V, target)
    THEN [outcome |-> "proximity", deviation |-> VecSub(V, target),
          evaluated |-> <<"band", "tension", "proximity">>]
    ELSE IF ~_check_semantic_coherence_single(V, in)
    THEN [outcome |-> "coherence", deviation |-> VecSub(V, target),
          evaluated |-> <<"band", "tension", "proximity", "coherence">>]
    ELSE [outcome |-> "accepted", deviation |-> NoDeviation,
          evaluated |-> <<"band", "tension", "proximity", "coherence">>]

(* ------------------------------------------------------------ result records *)

\* An approved candidate that reports the attempt index as the attempts used.
ApprovedCandidate_AttemptIndex(text, triad, k) ==
    [status |-> "approved", text |-> text, triad |-> triad,
     candidate_id |-> k, attempts_needed |-> k]

\* The dict returned when all layers passed (lines 334-340).
ApprovedCandidate(text, triad, k) ==
    [status |-> "approved", text |-> text, triad |-> triad,
     candidate_id |-> k, attempts_needed |-> k + 1]

\* A limitation protocol that answers with the posture the context asks for.
LimitationCandidate_TargetPosture(adaptive_context) ==
    [status |-> "limitation_protocol", text |-> LimitationText,
     triad |-> adaptive_context.target_triad, candidate_id |-> -1]

\* The dict returned by _honest_limitation_protocol (lines 475-501): it does
\* not read the adaptive_context it is given, and it has no attempts_needed key.
LimitationCandidate(adaptive_context) ==
    [status |-> "limitation_protocol", text |-> LimitationText,
     triad |-> <<100, 100, 120>>, candidate_id |-> -1]

\* dict.get(key, default)
DictGet(d, key, default) == IF key \in DOMAIN d THEN d[key] ELSE default

\* A stage 7 that integrates whatever the status is.
ShouldIntegrate_Always(status) == status \in {"approved", "recomposed", "limitation_protocol"}

\* The condition of stage 7 (line 143).
ShouldIntegrate(status) == status \in {"approved", "recomposed"}

\* The PipelineResult built by process_message (lines 154-167).
BuildPipelineResult(candidate, in) ==
    [response |-> candidate.text,
     metadata |-> [candidate_id |-> DictGet(candidate, "candidate_id", -2),
                   attempts_needed |->
                       DictGet(candidate, "attempts_needed", DefaultAttemptsNeeded),
                   finalizer_status |-> candidate.status],
     input_triad |-> in,
     output_triad |-> candidate.triad,
     finalizer_status |-> candidate.status]

\* The failure digest _generate_single_response puts in the prompt
\* (lines 368-375): empty on the first attempt, else the last record's.
NoFailureContext == [failure |-> "none", triad |-> NoDeviation]

\* A digest taken from the first failure of the run instead of the last.
FailureContext_First(history) ==
    IF history = <<>> THEN NoFailureContext
    ELSE [failure |-> history[1].failure, triad |-> history[1].triad]

FailureContext(history) ==
    IF history = <<>> THEN NoFailureContext
    ELSE [failure |-> history[Len(history)].failure,
          triad |-> history[Len(history)].triad]

\* The record appended to attempt_history on a rejection (lines 266-271).
AttemptRecord(k, text, V, reason) ==
    [attempt |-> k, response |-> text, triad |-> V, failure |-> reason]

(* --------------------------------------------------------------------- state *)

\* Python's truth value of an Optional[str] (lines 517, 557).
Truthy(x) == x \notin {"none", ""}

\* `if not thread_id and user_email` (line 517)
NeedsThread(tid, email) == ~Truthy(tid) /\ Truthy(email)

\* The thread the exchanges are stored under (lines 517-518).
ThreadFor(tid, email) == IF NeedsThread(tid, email) THEN CreatedThread ELSE tid

\* memory.create_thread(user_email), when it is called (lines 517-518).
ThreadCalls(tid, email) ==
    IF NeedsThread(tid, email)
    THEN << [op |-> "create_thread", user_email |-> email] >>
    ELSE << >>

\* The two memory.integrate_experience calls (lines 531-554).
StoreCalls(message, response, t) ==
    << [op |-> "integrate_experience", role |-> "user", content |-> message,
        thread_id |-> t],
       [op |-> "integrate_experience", role |-> "assistant", content |-> response,
        thread_id |-> t] >>

\* memory.update_thread_timestamp(thread_id), when it is called (lines 557-558).
TouchCalls(t) ==
    IF Truthy(t) THEN << [op |-> "update_thread_timestamp", thread_id |-> t] >>
    ELSE << >>

\* rlmd.process_dialogue and shell.update_from_interaction (lines 561-567).
AdaptationCalls(message, in, out) ==
    << [op |-> "process_dialogue", content |-> message],
       [op |-> "update_from_interaction", input_triad |-> in, output_triad |-> out] >>

VARIABLES
    pc,               \* where the invocation stands
    entry,            \* "process_message", or "_generate_and_validate" called alone
    rlmd,             \* self.rlmd: "configured" or "none"
    logger_bound,     \* whether the module global `logger` (line 420) is bound
    user_message,     \* processed_input
    input_triad,      \* the score of the processed input
    target_triad,     \* adaptive_context['target_triad']
    max_attempts,     \* parameter of _generate_and_validate
    attempt,          \* the loop variable
    attempt_history,  \* the list of records of rejected attempts
    failure_context,  \* the failure digest of the latest generation prompt
    response_text,    \* the latest generated text
    output_triad,     \* V, the score of response_text
    policy,           \* the outcome of the validation of this attempt
    best_candidate,   \* what _generate_and_validate returned
    result,           \* the PipelineResult returned by process_message
    error,            \* the exception that ended the invocation, if any
    gen_calls,        \* api.generate_response calls made
    score_calls,      \* api.score_triad calls made with role "assistant"
    learned,          \* deviations passed to rlmd.process_new_data_vector
    persisted,        \* experiences passed to memory.integrate_experience
    notified,         \* posture pairs passed to shell.update_from_interaction
    trace,            \* the steps of the retry loop, in the order they ran
    failed_call,      \* the exception a collaborator call raised, if one did
    verdict,          \* the answer of a check applied on its own
    thread_id,        \* the thread_id argument of process_message
    user_email,       \* the user_email argument of process_message
    integration,      \* the collaborator calls _integrate_and_learn made, in order
    inv               \* the locals of each of two invocations running at once

vars == << pc, entry, rlmd, logger_bound, user_message, input_triad, target_triad,
           max_attempts, attempt, attempt_history, failure_context, response_text,
           output_triad, policy, best_candidate, result, error, gen_calls,
           score_calls, learned, persisted, notified, trace, failed_call,
           verdict, thread_id, user_email, integration, inv >>

env      == << rlmd, logger_bound >>
args     == << entry, user_message, input_triad, target_triad, max_attempts,
               thread_id, user_email >>
locals   == << attempt, attempt_history, failure_context, response_text,
               output_triad, policy >>
effects  == << gen_calls, score_calls, learned, persisted, notified >>

NoCandidate == [status |-> "none"]
NoResult    == [finalizer_status |-> "none"]
NoPolicy    == [outcome |-> "none", deviation |-> NoDeviation, evaluated |-> <<>>]

\* Two calls of process_message on one pipeline object.
Invocations == {1, 2}

\* The frame of a call of process_message that has not started.
IdleInvocation ==
    [pc |-> "idle", user_message |-> "none", input_triad |-> NoDeviation,
     target_triad |-> NoDeviation, attempt |-> 0, attempt_history |-> << >>,
     failure_context |-> NoFailureContext, response_text |-> "none",
     output_triad |-> NoDeviation, policy |-> NoPolicy,
     best_candidate |-> NoCandidate, result |-> NoResult, error |-> "none",
     gen_calls |-> 0]

\* A constructed pipeline (lines 79-93) on which nothing has been called yet.
\* The learner may be configured, be an object without process_new_data_vector
\* ("no_absorb") or be None (line 416 tests for both), and the
\* module never binds the name `logger` it uses at line 420: whether the
\* embedding application has bound it is a fact of the environment.
Init ==
    /\ pc = "idle"
    /\ entry = "none"
    /\ rlmd \in {"configured", "no_absorb", "none"}
    /\ logger_bound \in BOOLEAN
    /\ user_message = "none"
    /\ input_triad = NoDeviation
    /\ target_triad = NoDeviation
    /\ max_attempts = 0
    /\ attempt = 0
    /\ attempt_history = <<>>
    /\ failure_context = NoFailureContext
    /\ response_text = "none"
    /\ output_triad = NoDeviation
    /\ policy = NoPolicy
    /\ best_candidate = NoCandidate
    /\ result = NoResult
    /\ error = "none"
    /\ gen_calls = 0
    /\ score_calls = 0
    /\ learned = <<>>
    /\ persisted = <<>>
    /\ notified = <<>>
    /\ trace = <<>>
    /\ failed_call = "none"
    /\ verdict = "none"
    /\ thread_id = "none"
    /\ user_email = "none"
    /\ integration = << >>
    /\ inv = [i \in Invocations |-> IdleInvocation]

(* ------------------------------------------------------------------- actions *)

\* process_message, stages 1-3 (lines 115-131) and the call of the
\* orchestrator with max_attempts=3 (lines 134-140).
process_message ==
    /\ pc = "idle"
    /\ \E m \in Messages, t \in Targets :
          /\ user_message' = m
          /\ input_triad' = UserScores[m]
          /\ target_triad' = t
    /\ thread_id' \in ThreadIds
    /\ user_email' \in UserEmails
    /\ entry' = "process_message"
    /\ max_attempts' = FacadeMaxAttempts
    /\ pc' = "loop"
    /\ UNCHANGED << env, inv, integration, verdict, failed_call,
                    trace, locals, best_candidate, result, error, effects >>

\* _generate_and_validate called on its own, with any max_attempts.
_generate_and_validate ==
    /\ pc = "idle"
    /\ \E m \in Messages, t \in Targets, n \in 0..MaxAttempts :
          /\ user_message' = m
          /\ input_triad' = UserScores[m]
          /\ target_triad' = t
          /\ max_attempts' = n
    /\ entry' = "_generate_and_validate"
    /\ UNCHANGED << thread_id, user_email >>
    /\ pc' = "loop"
    /\ UNCHANGED << env, inv, integration, verdict, failed_call,
                    trace, locals, best_candidate, result, error, effects >>

\* One more iteration of `for attempt in range(max_attempts)` (line 237):
\* _generate_single_response builds the prompt and calls the generator.
_generate_single_response ==
    /\ pc = "loop"
    /\ attempt < max_attempts
    /\ failure_context' = FailureContext(attempt_history)
    /\ \E t \in Texts : response_text' = t
    /\ gen_calls' = gen_calls + 1
    /\ trace' = Append(trace, <<"generate", attempt>>)
    /\ pc' = "score"
    /\ UNCHANGED << env, inv, integration, verdict, failed_call,
                    args, attempt, attempt_history, output_triad, policy,
                    best_candidate, result, error, score_calls, learned,
                    persisted, notified >>

\* _score_message_triad(response_text, role="assistant") (lines 248-249).
_score_message_triad ==
    /\ pc = "score"
    /\ output_triad' = ResponderScores[response_text]
    /\ score_calls' = score_calls + 1
    /\ trace' = Append(trace, <<"score", attempt>>)
    /\ pc' = "validate"
    /\ UNCHANGED << env, inv, integration, verdict, failed_call,
                    args, attempt, attempt_history, failure_context,
                    response_text, policy, best_candidate, result, error,
                    gen_calls, learned, persisted, notified >>

\* A validation whose rejection goes straight to the append, past the learner.
Validate_SkipLearner ==
    /\ pc = "validate"
    /\ policy' = EvaluatePolicy(output_triad, target_triad, input_triad)
    /\ trace' = Append(trace, <<"validate", attempt>>)
    /\ IF policy'.outcome = "accepted"
       THEN /\ best_candidate' =
                   ApprovedCandidate(response_text, output_triad, attempt)
            /\ pc' = "returned"
       ELSE /\ best_candidate' = best_candidate
            /\ pc' = "append"
    /\ UNCHANGED << env, inv, integration, verdict, failed_call,
                    args, attempt, attempt_history, failure_context,
                    response_text, output_triad, result, error, effects >>

\* The three-layer validation (lines 251-340): a pass returns the approved
\* candidate, a failure goes on to _process_deviation_as_learning.
Validate ==
    /\ pc = "validate"
    /\ policy' = EvaluatePolicy(output_triad, target_triad, input_triad)
    /\ trace' = Append(trace, <<"validate", attempt>>)
    /\ IF policy'.outcome = "accepted"
       THEN /\ best_candidate' =
                   ApprovedCandidate(response_text, output_triad, attempt)
            /\ pc' = "returned"
       ELSE /\ best_candidate' = best_candidate
            /\ pc' = "learn"
    /\ UNCHANGED << env, inv, integration, verdict, failed_call,
                    args, attempt, attempt_history, failure_context,
                    response_text, output_triad, result, error, effects >>

\* Lines 415-417: the learner receives the deviation when it is configured.
LearnerInput(learner, dev, sofar) ==
    IF learner = "configured" THEN Append(sofar, dev) ELSE sofar

\* The same test, for the record of the steps taken.
LearnerStep(learner, k, sofar) ==
    IF learner = "configured" THEN Append(sofar, <<"learn", k>>) ELSE sofar

\* _process_deviation_as_learning (lines 401-423) with `logger` bound: the
\* learner call, then the log line; the caller goes on to the append.
_process_deviation_as_learning ==
    /\ pc = "learn"
    /\ logger_bound
    /\ learned' = LearnerInput(rlmd, policy.deviation, learned)
    /\ trace' = LearnerStep(rlmd, attempt, trace)
    /\ pc' = "append"
    /\ UNCHANGED << env, inv, integration, verdict, failed_call,
                    args, locals, best_candidate, result, error, gen_calls,
                    score_calls, persisted, notified >>

\* _process_deviation_as_learning with `logger` unbound: the learner call is
\* made, then line 420 raises NameError, which nothing catches.
_process_deviation_NameError ==
    /\ pc = "learn"
    /\ ~logger_bound
    /\ learned' = LearnerInput(rlmd, policy.deviation, learned)
    /\ trace' = LearnerStep(rlmd, attempt, trace)
    /\ error' = "NameError"
    /\ pc' = "raised"
    /\ UNCHANGED << env, inv, integration, verdict, failed_call,
                    args, locals, best_candidate, result, gen_calls,
                    score_calls, persisted, notified >>

\* attempt_history.append(...) and `continue` (lines 266-272 and alike).
AppendAttempt ==
    /\ pc = "append"
    /\ attempt_history' = Append(attempt_history,
           AttemptRecord(attempt, response_text, output_triad, policy.outcome))
    /\ attempt' = attempt + 1
    /\ trace' = Append(trace, <<"append", attempt>>)
    /\ pc' = "loop"
    /\ UNCHANGED << env, inv, integration, verdict, failed_call,
                    args, failure_context, response_text, output_triad,
                    policy, best_candidate, result, error, effects >>

\* The loop is exhausted (line 343): _honest_limitation_protocol.
_honest_limitation_protocol ==
    /\ pc = "loop"
    /\ ~(attempt < max_attempts)
    /\ best_candidate' = LimitationCandidate([target_triad |-> target_triad])
    /\ pc' = "returned"
    /\ UNCHANGED << env, inv, integration, verdict, failed_call,
                    trace, args, locals, result, error, effects >>

\* The two experiences _integrate_and_learn stores (lines 520-554).
Exchange(message, response) ==
    << [role |-> "user", content |-> message],
       [role |-> "assistant", content |-> response] >>

\* Stage 7 taken (lines 143-151) with a learner: _integrate_and_learn stores
\* both sides, then rlmd.process_dialogue and shell.update_from_interaction.
_integrate_and_learn ==
    /\ pc = "returned"
    /\ entry = "process_message"
    /\ ShouldIntegrate(best_candidate.status)
    /\ rlmd # "none"
    /\ persisted' = persisted \o Exchange(user_message, best_candidate.text)
    /\ notified' = Append(notified, << input_triad, best_candidate.triad >>)
    /\ LET t == ThreadFor(thread_id, user_email)
       IN  integration' = integration
               \o ThreadCalls(thread_id, user_email)
               \o StoreCalls(user_message, best_candidate.text, t)
               \o TouchCalls(t)
               \o AdaptationCalls(user_message, input_triad, best_candidate.triad)
    /\ pc' = "build"
    /\ UNCHANGED << env, inv, verdict, failed_call,
                    trace, args, locals, best_candidate, result, error, gen_calls,
                    score_calls, learned >>

\* Stage 7 taken without a learner: both sides are stored, then line 561
\* calls process_dialogue on None and raises AttributeError.
_integrate_and_learn_AttributeError ==
    /\ pc = "returned"
    /\ entry = "process_message"
    /\ ShouldIntegrate(best_candidate.status)
    /\ rlmd = "none"
    /\ persisted' = persisted \o Exchange(user_message, best_candidate.text)
    /\ LET t == ThreadFor(thread_id, user_email)
       IN  integration' = integration
               \o ThreadCalls(thread_id, user_email)
               \o StoreCalls(user_message, best_candidate.text, t)
               \o TouchCalls(t)
    /\ error' = "AttributeError"
    /\ pc' = "raised"
    /\ UNCHANGED << env, inv, verdict, failed_call,
                    trace, args, locals, best_candidate, result, gen_calls,
                    score_calls, learned, notified >>

\* Stage 7 skipped: the status is neither approved nor recomposed.
SkipIntegrate ==
    /\ pc = "returned"
    /\ entry = "process_message"
    /\ ~ShouldIntegrate(best_candidate.status)
    /\ pc' = "build"
    /\ UNCHANGED << env, inv, integration, verdict, failed_call,
                    trace, args, locals, best_candidate, result, error, effects >>

\* return PipelineResult(...) (lines 154-167).
ReturnResult ==
    /\ pc = "build"
    /\ result' = BuildPipelineResult(best_candidate, input_triad)
    /\ pc' = "done"
    /\ UNCHANGED << env, inv, integration, verdict, failed_call,
                    trace, args, locals, best_candidate, error, effects >>

(* ------------------------------------------------------ collaborator failures *)

\* Stages 1-3 of process_message (lines 116-131): the scorer or the embedder
\* raises while the input is prepared; nothing catches it.
process_message_fails ==
    /\ pc = "idle"
    /\ \E e \in {"ScorerError", "EmbedderError"} :
          /\ failed_call' = e
          /\ error' = e
    /\ entry' = "process_message"
    /\ pc' = "raised"
    /\ UNCHANGED << env, inv, integration, verdict, trace, user_message, input_triad,
                    target_triad, max_attempts, thread_id, user_email, locals,
                    best_candidate, result, effects >>

\* A generator failure that is swallowed and answered with the fallback.
_generate_single_response_fallback ==
    /\ pc = "loop"
    /\ attempt < max_attempts
    /\ failure_context' = FailureContext(attempt_history)
    /\ gen_calls' = gen_calls + 1
    /\ trace' = Append(trace, <<"generate", attempt>>)
    /\ failed_call' = "GeneratorError"
    /\ best_candidate' = LimitationCandidate([target_triad |-> target_triad])
    /\ pc' = "returned"
    /\ UNCHANGED << env, inv, integration, verdict, args, attempt, attempt_history, response_text,
                    output_triad, policy, result, error, score_calls,
                    learned, persisted, notified >>

\* api.generate_response raises (lines 395-399): the exception leaves
\* _generate_single_response, the loop and process_message.
_generate_single_response_fails ==
    /\ pc = "loop"
    /\ attempt < max_attempts
    /\ failure_context' = FailureContext(attempt_history)
    /\ gen_calls' = gen_calls + 1
    /\ trace' = Append(trace, <<"generate", attempt>>)
    /\ failed_call' = "GeneratorError"
    /\ error' = "GeneratorError"
    /\ pc' = "raised"
    /\ UNCHANGED << env, inv, integration, verdict, args, attempt, attempt_history, response_text,
                    output_triad, policy, best_candidate, result, score_calls,
                    learned, persisted, notified >>

\* api.score_triad raises on the generated text (lines 191, 248).
_score_message_triad_fails ==
    /\ pc = "score"
    /\ score_calls' = score_calls + 1
    /\ trace' = Append(trace, <<"score", attempt>>)
    /\ failed_call' = "ScorerError"
    /\ error' = "ScorerError"
    /\ pc' = "raised"
    /\ UNCHANGED << env, inv, integration, verdict, args, locals, best_candidate, result, gen_calls,
                    learned, persisted, notified >>

\* rlmd.process_new_data_vector raises (line 417): there is no try around
\* the call, so the exception leaves the loop before the record is appended.
_process_deviation_LearnerError ==
    /\ pc = "learn"
    /\ rlmd = "configured"
    /\ learned' = LearnerInput(rlmd, policy.deviation, learned)
    /\ trace' = LearnerStep(rlmd, attempt, trace)
    /\ failed_call' = "LearnerError"
    /\ error' = "LearnerError"
    /\ pc' = "raised"
    /\ UNCHANGED << env, inv, integration, verdict, args, locals, best_candidate, result, gen_calls,
                    score_calls, persisted, notified >>

\* api.embed_text or memory.integrate_experience raises inside
\* _integrate_and_learn (lines 521-554), after n of the two exchanges were stored.
_integrate_and_learn_fails ==
    /\ pc = "returned"
    /\ entry = "process_message"
    /\ ShouldIntegrate(best_candidate.status)
    /\ \E n \in 0..1, e \in {"EmbedderError", "MemoryError"} :
          /\ persisted' = persisted \o
                 SubSeq(Exchange(user_message, best_candidate.text), 1, n)
          /\ integration' = integration
                 \o ThreadCalls(thread_id, user_email)
                 \o SubSeq(StoreCalls(user_message, best_candidate.text,
                                      ThreadFor(thread_id, user_email)), 1, n)
          /\ failed_call' = e
          /\ error' = e
    /\ pc' = "raised"
    /\ UNCHANGED << env, inv, verdict, trace, args, locals, best_candidate, result,
                    gen_calls, score_calls, learned, notified >>

Next ==
    \/ process_message
    \/ _generate_and_validate
    \/ _generate_single_response
    \/ _score_message_triad
    \/ Validate
    \/ _process_deviation_as_learning
    \/ _process_deviation_NameError
    \/ AppendAttempt
    \/ _honest_limitation_protocol
    \/ _integrate_and_learn
    \/ _integrate_and_learn_AttributeError
    \/ SkipIntegrate
    \/ ReturnResult
    \/ process_message_fails
    \/ _generate_single_response_fails
    \/ _score_message_triad_fails
    \/ _process_deviation_LearnerError
    \/ _integrate_and_learn_fails

Spec == Init /\ [][Next]_vars

(* ------------------------------------------- two invocations on one pipeline *)

\* A generator that is a function of its prompt (lines 378-399): the user
\* message, the target, the failure digest and the attempt number.
Generator(message, target, context, attempt_number) ==
    IF context.failure = "none"
    THEN CASE message = "plain" -> "balanced"
           [] message = "seek_truth" -> "deceptive"
           [] OTHER -> "cold"
    ELSE CASE context.failure = "hard_bound" -> "curt"
           [] context.failure = "tension" -> "supported"
           [] context.failure = "coherence" ->
                  IF target = V_0 THEN "balanced" ELSE "far"
           [] OTHER -> "far"

\* An attempt history kept on the pipeline object, the same list for every call.
History_Shared(i) == inv[1].attempt_history

\* attempt_history is a local of _generate_and_validate (line 235): each call
\* has its own list.
History(i) == inv[i].attempt_history

\* The variables the second specification leaves alone: the single
\* invocation of the first specification and its records.
single == << pc, entry, user_message, input_triad, target_triad, max_attempts,
             attempt, attempt_history, failure_context, response_text,
             output_triad, policy, best_candidate, result, error, gen_calls,
             score_calls, trace, failed_call, verdict, thread_id, user_email,
             integration >>

InitTwo ==
    /\ pc = "two"
    /\ entry = "none"
    /\ rlmd \in {"configured", "no_absorb", "none"}
    /\ logger_bound \in BOOLEAN
    /\ user_message = "none"
    /\ input_triad = NoDeviation
    /\ target_triad = NoDeviation
    /\ max_attempts = 0
    /\ attempt = 0
    /\ attempt_history = <<>>
    /\ failure_context = NoFailureContext
    /\ response_text = "none"
    /\ output_triad = NoDeviation
    /\ policy = NoPolicy
    /\ best_candidate = NoCandidate
    /\ result = NoResult
    /\ error = "none"
    /\ gen_calls = 0
    /\ score_calls = 0
    /\ learned = <<>>
    /\ persisted = <<>>
    /\ notified = <<>>
    /\ trace = <<>>
    /\ failed_call = "none"
    /\ verdict = "none"
    /\ thread_id = "none"
    /\ user_email = "none"
    /\ integration = << >>
    /\ inv = [i \in Invocations |-> IdleInvocation]

\* process_message stages 1-3 (lines 115-131) in call i.
process_message_by(i) ==
    /\ inv[i].pc = "idle"
    /\ \E m \in Messages, t \in Targets :
          inv' = [inv EXCEPT ![i].user_message = m,
                             ![i].input_triad = UserScores[m],
                             ![i].target_triad = t,
                             ![i].pc = "loop"]
    /\ UNCHANGED << env, single, learned, persisted, notified >>

\* _generate_single_response (lines 238-245, 345-399) in call i.
_generate_single_response_by(i) ==
    /\ inv[i].pc = "loop"
    /\ inv[i].attempt < FacadeMaxAttempts
    /\ LET context == FailureContext(History(i))
       IN  inv' = [inv EXCEPT
                      ![i].failure_context = context,
                      ![i].response_text =
                          Generator(inv[i].user_message, inv[i].target_triad,
                                    context, inv[i].attempt),
                      ![i].gen_calls = @ + 1,
                      ![i].pc = "score"]
    /\ UNCHANGED << env, single, learned, persisted, notified >>

\* _score_message_triad(response_text, role="assistant") (line 248) in call i.
_score_message_triad_by(i) ==
    /\ inv[i].pc = "score"
    /\ inv' = [inv EXCEPT ![i].output_triad = ResponderScores[inv[i].response_text],
                          ![i].pc = "validate"]
    /\ UNCHANGED << env, single, learned, persisted, notified >>

\* The validation (lines 251-340) in call i.
Validate_by(i) ==
    /\ inv[i].pc = "validate"
    /\ LET p == EvaluatePolicy(inv[i].output_triad, inv[i].target_triad,
                               inv[i].input_triad)
       IN  inv' = [inv EXCEPT
                      ![i].policy = p,
                      ![i].best_candidate =
                          IF p.outcome = "accepted"
                          THEN ApprovedCandidate(inv[i].response_text,
                                                 inv[i].output_triad, inv[i].attempt)
                          ELSE @,
                      ![i].pc = IF p.outcome = "accepted" THEN "returned"
                                ELSE "learn"]
    /\ UNCHANGED << env, single, learned, persisted, notified >>

\* _process_deviation_as_learning (lines 401-423) in call i: the learner call,
\* then the log line, which raises NameError where `logger` is unbound.
_process_deviation_as_learning_by(i) ==
    /\ inv[i].pc = "learn"
    /\ learned' = LearnerInput(rlmd, inv[i].policy.deviation, learned)
    /\ inv' = [inv EXCEPT
                  ![i].error = IF logger_bound THEN @ ELSE "NameError",
                  ![i].pc = IF logger_bound THEN "append" ELSE "raised"]
    /\ UNCHANGED << env, single, persisted, notified >>

\* attempt_history.append(...) and `continue` in call i.
AppendAttempt_by(i) ==
    /\ inv[i].pc = "append"
    /\ inv' = [inv EXCEPT
                  ![i].attempt_history =
                      Append(History(i),
                             AttemptRecord(inv[i].attempt, inv[i].response_text,
                                           inv[i].output_triad,
                                           inv[i].policy.outcome)),
                  ![i].attempt = @ + 1,
                  ![i].pc = "loop"]
    /\ UNCHANGED << env, single, learned, persisted, notified >>

\* The loop of call i is exhausted (line 343).
_honest_limitation_protocol_by(i) ==
    /\ inv[i].pc = "loop"
    /\ ~(inv[i].attempt < FacadeMaxAttempts)
    /\ inv' = [inv EXCEPT
                  ![i].best_candidate =
                      LimitationCandidate([target_triad |-> inv[i].target_triad]),
                  ![i].pc = "returned"]
    /\ UNCHANGED << env, single, learned, persisted, notified >>

\* Stage 7 of call i (lines 143-151, 503-567): skipped unless approved; else
\* both sides are stored, and line 561 raises where there is no learner.
_integrate_and_learn_by(i) ==
    /\ inv[i].pc = "returned"
    /\ IF ~ShouldIntegrate(inv[i].best_candidate.status)
       THEN /\ inv' = [inv EXCEPT ![i].pc = "build"]
            /\ UNCHANGED << persisted, notified >>
       ELSE /\ persisted' = persisted \o
                   Exchange(inv[i].user_message, inv[i].best_candidate.text)
            /\ IF rlmd = "none"
               THEN /\ notified' = notified
                    /\ inv' = [inv EXCEPT ![i].error = "AttributeError",
                                          ![i].pc = "raised"]
               ELSE /\ notified' = Append(notified,
                           << inv[i].input_triad, inv[i].best_candidate.triad >>)
                    /\ inv' = [inv EXCEPT ![i].pc = "build"]
    /\ UNCHANGED << env, single, learned >>

\* return PipelineResult(...) (lines 154-167) in call i.
ReturnResult_by(i) ==
    /\ inv[i].pc = "build"
    /\ inv' = [inv EXCEPT
                  ![i].result = BuildPipelineResult(inv[i].best_candidate,
                                                    inv[i].input_triad),
                  ![i].pc = "done"]
    /\ UNCHANGED << env, single, learned, persisted, notified >>

NextTwo ==
    \E i \in Invocations :
       \/ process_message_by(i)
       \/ _generate_single_response_by(i)
       \/ _score_message_triad_by(i)
       \/ Validate_by(i)
       \/ _process_deviation_as_learning_by(i)
       \/ AppendAttempt_by(i)
       \/ _honest_limitation_protocol_by(i)
       \/ _integrate_and_learn_by(i)
       \/ ReturnResult_by(i)

SpecTwo == InitTwo /\ [][NextTwo]_vars

(* ------------------------------------------------- the checks on their own *)

\* The component values the checks are tried on: the thresholds 0.85, 0.9 and
\* 1.0, the band edges, and their neighbours.
Levels == {70, 80, 84, 85, 89, 90, 100, 101, 110, 120, 130}

ProbeTargets == { <<100, 100, 100>>, <<80, 80, 100>>, <<60, 100, 100>> }

ProbeInputs == { <<100, 100, 100>>, <<101, 100, 100>>, <<100, 100, 101>>,
                 <<110, 100, 110>> }

\* The arguments of one call of a check: any posture V, target and input.
InitChecks ==
    /\ pc = "probe"
    /\ entry = "check"
    /\ rlmd = "configured"
    /\ logger_bound = TRUE
    /\ user_message = "none"
    /\ output_triad \in Levels \X Levels \X Levels
    /\ target_triad \in ProbeTargets
    /\ input_triad \in ProbeInputs
    /\ max_attempts = 0
    /\ attempt = 0
    /\ attempt_history = <<>>
    /\ failure_context = NoFailureContext
    /\ response_text = "none"
    /\ policy = NoPolicy
    /\ best_candidate = NoCandidate
    /\ result = NoResult
    /\ error = "none"
    /\ gen_calls = 0
    /\ score_calls = 0
    /\ learned = <<>>
    /\ persisted = <<>>
    /\ notified = <<>>
    /\ trace = <<>>
    /\ failed_call = "none"
    /\ verdict = "none"
    /\ thread_id = "none"
    /\ user_email = "none"
    /\ integration = << >>
    /\ inv = [i \in Invocations |-> IdleInvocation]

PassOrFail(ok) == IF ok THEN "pass" ELSE "fail"

\* self._check_geometric_tension(V) (line 275)
Call_check_geometric_tension ==
    /\ pc = "probe"
    /\ verdict' = PassOrFail(_check_geometric_tension(output_triad))
    /\ pc' = "tension"
    /\ UNCHANGED << env, inv, integration, failed_call, trace, args, locals, best_candidate, result,
                    error, effects >>

\* The proximity test (lines 294-296)
Call_proximity ==
    /\ pc = "probe"
    /\ verdict' = PassOrFail(~TooFarFromTarget(output_triad, target_triad))
    /\ pc' = "proximity"
    /\ UNCHANGED << env, inv, integration, failed_call, trace, args, locals, best_candidate, result,
                    error, effects >>

\* self._check_semantic_coherence_single(text, output_triad, input_triad) (line 315)
Call_check_semantic_coherence_single ==
    /\ pc = "probe"
    /\ verdict' = PassOrFail(_check_semantic_coherence_single(output_triad, input_triad))
    /\ pc' = "coherence"
    /\ UNCHANGED << env, inv, integration, failed_call, trace, args, locals, best_candidate, result,
                    error, effects >>

\* The whole validation of lines 251-331 on one posture
Call_validation ==
    /\ pc = "probe"
    /\ policy' = EvaluatePolicy(output_triad, target_triad, input_triad)
    /\ verdict' = PassOrFail(policy'.outcome = "accepted")
    /\ pc' = "policy"
    /\ UNCHANGED << env, inv, integration, failed_call, trace, args, attempt, attempt_history,
                    failure_context, response_text, output_triad, best_candidate,
                    result, error, effects >>

NextChecks ==
    \/ Call_check_geometric_tension
    \/ Call_proximity
    \/ Call_check_semantic_coherence_single
    \/ Call_validation

SpecChecks == InitChecks /\ [][NextChecks]_vars

(* -------------------------------------------------------------------- claims *)

\* The orchestrator's run has ended: it returned, or an exception left it.
OrchestratorReturned == best_candidate.status # "none"
OrchestratorEnded == OrchestratorReturned \/ error = "NameError"

\* C1: one run of the orchestrator calls the generator at most max_attempts
\* times, always returns, and returns either right after the first accepted
\* attempt or after exactly max_attempts rejected attempts.
C1_BoundedAttempts ==
    /\ gen_calls <= max_attempts
    /\ error # "NameError"
    /\ OrchestratorReturned =>
          \/ /\ best_candidate.status = "approved"
             /\ policy.outcome = "accepted"
             /\ gen_calls = Len(attempt_history) + 1
          \/ /\ best_candidate.status = "limitation_protocol"
             /\ Len(attempt_history) = max_attempts
             /\ gen_calls = max_attempts

\* C2: when attempt k passes all checks the orchestrator returns status
\* approved with attempts_needed = k + 1, and no generator, scorer or learner
\* call is made for a later attempt, up to the end of the invocation.
C2_FirstSuccessWins ==
    /\ policy.outcome = "accepted" =>
          /\ best_candidate.status = "approved"
          /\ best_candidate.attempts_needed = attempt + 1
          /\ best_candidate.text = response_text
          /\ gen_calls = attempt + 1
          /\ score_calls = attempt + 1
          /\ Len(learned) <= attempt
          /\ Len(attempt_history) = attempt
    /\ best_candidate.status = "approved" => policy.outcome = "accepted"

C2_Witness ==
    /\ pc = "done"
    /\ best_candidate.status = "approved"
    /\ attempt = 1
    /\ max_attempts = FacadeMaxAttempts
    /\ Len(learned) = 1

\* C3: the posture of every response process_message returns, approved or
\* limitation protocol, has each of its three components in [0.8, 1.2].
C3_ResultInBand ==
    pc = "done" =>
       /\ result.finalizer_status \in {"approved", "limitation_protocol"}
       /\ \A i \in 1..3 :
             BandLow <= result.output_triad[i] /\ result.output_triad[i] <= BandHigh

C3_Witness ==
    /\ pc = "done"
    /\ result.finalizer_status = "approved"
    /\ result.output_triad = <<110, 120, 100>>

\* C4: an approved candidate's posture is the score of its text and passes
\* all four checks: the band, the three tension implications, distance to
\* the target at most 0.5, and both coherence implications against the input.
C4_ApprovedPassesAll ==
    best_candidate.status = "approved" =>
       LET V == best_candidate.triad
           D == VecSub(V, target_triad)
       IN  /\ V = ResponderScores[best_candidate.text]
           /\ check_in_harmonic_band(V)
           /\ V[2] > 100 => V[3] >= 85
           /\ V[3] > 100 => V[1] >= 85
           /\ V[1] > 100 => V[2] >= 85
           /\ D[1] * D[1] + D[2] * D[2] + D[3] * D[3] <= 2500
           /\ input_triad[3] > 100 => V[3] >= 90
           /\ input_triad[1] > 100 => V[1] >= 90

C4_Witness ==
    /\ best_candidate.status = "approved"
    /\ best_candidate.triad = <<110, 110, 90>>
    /\ input_triad = <<100, 100, 110>>
    /\ pc = "done"

\* The checks a posture fails, each taken alone.
FailsBand(V)      == ~check_in_harmonic_band(V)
FailsTension(V)   == \/ V[2] > 100 /\ V[3] < 85
                     \/ V[3] > 100 /\ V[1] < 85
                     \/ V[1] > 100 /\ V[2] < 85
FailsProximity(V) == NormSq(VecSub(V, target_triad)) > 2500
FailsCoherence(V) == \/ input_triad[3] > 100 /\ V[3] < 90
                     \/ input_triad[1] > 100 /\ V[1] < 90

\* The rejection a posture must be reported with: that of the first failing
\* check in the order hard bound, tension, proximity, coherence.
RejectionIsFirstFailure(V, reason) ==
    /\ FailsBand(V) => reason = "hard_bound"
    /\ ~FailsBand(V) /\ FailsTension(V) => reason = "tension"
    /\ ~FailsBand(V) /\ ~FailsTension(V) /\ FailsProximity(V)
          => reason = "proximity"
    /\ ~FailsBand(V) /\ ~FailsTension(V) /\ ~FailsProximity(V) /\ FailsCoherence(V)
          => reason = "coherence"

\* C5: the rejection of an attempt is that of the first failing check in the
\* fixed order; a posture outside the band is a hard-bound rejection whatever
\* else it violates; no check is evaluated after the failing one.
C5_PolicyOrdering ==
    /\ pc \in {"learn", "append"} =>
          /\ policy.outcome \notin {"none", "accepted"}
          /\ RejectionIsFirstFailure(output_triad, policy.outcome)
          /\ policy.outcome = "hard_bound" => policy.evaluated = <<"band">>
          /\ policy.outcome = "tension" => policy.evaluated = <<"band", "tension">>
          /\ policy.outcome = "proximity" =>
                policy.evaluated = <<"band", "tension", "proximity">>
    /\ \A i \in 1..Len(attempt_history) :
          /\ attempt_history[i].failure # "accepted"
          /\ RejectionIsFirstFailure(attempt_history[i].triad,
                                     attempt_history[i].failure)

C5_Witness ==
    /\ Len(attempt_history) = 1
    /\ attempt_history[1].failure = "hard_bound"
    /\ FailsTension(attempt_history[1].triad)

\* The deviation the code derives for a rejected posture (lines 255-319).
DeviationOf(V, reason) ==
    IF reason = "hard_bound" THEN VecSub(V, V_0) ELSE VecSub(V, target_triad)

\* C6: with a learner configured, every rejected attempt has exactly one
\* learner call, with its deviation, made before the next generator call, and
\* at the end of the run there are as many learner calls as attempt records.
C6_LearnerPerRecord ==
    (rlmd = "configured" /\ failed_call = "none" /\ pc \notin {"learn", "append"}) =>
       /\ Len(learned) = Len(attempt_history)
       /\ \A i \in 1..Len(attempt_history) :
             learned[i] = DeviationOf(attempt_history[i].triad,
                                      attempt_history[i].failure)

\* The fixed fallback response of the Honest Limitation Protocol.
FixedFallback ==
    [status |-> "limitation_protocol", text |-> LimitationText,
     triad |-> <<100, 100, 120>>, candidate_id |-> -1]

\* C7: when every attempt is rejected, the run makes exactly max_attempts
\* generator calls and then returns the fixed fallback response with status
\* limitation_protocol.
C7_ExhaustionPath ==
    (OrchestratorEnded /\ policy.outcome # "accepted") =>
       /\ gen_calls = max_attempts
       /\ best_candidate = FixedFallback

\* C8: a process_message invocation whose outcome is the limitation protocol
\* stores nothing and notifies nobody of the posture pair; whatever was
\* stored was stored for an approved outcome.
C8_NoPersistOnLimitation ==
    /\ best_candidate.status = "limitation_protocol" =>
          persisted = <<>> /\ notified = <<>>
    /\ (persisted # <<>> \/ notified # <<>>) => best_candidate.status = "approved"

C8_Witness ==
    /\ pc = "done"
    /\ entry = "process_message"
    /\ result.finalizer_status = "limitation_protocol"
    /\ Len(attempt_history) = FacadeMaxAttempts

\* C9: with every collaborator present and answering, process_message never
\* ends in an error: rejections are handled in the loop and exhaustion gives
\* a normal result.
C9_NoErrorOnRejection ==
    (entry = "process_message" /\ rlmd = "configured" /\ failed_call = "none") =>
       error = "none" /\ pc # "raised"

\* C10: the result's metadata carries the orchestrator's status, and as
\* attempts used the number of generation attempts made, on both paths.
C10_MetadataVerbatim ==
    pc = "done" =>
       /\ result.metadata.finalizer_status = best_candidate.status
       /\ result.finalizer_status = best_candidate.status
       /\ result.metadata.attempts_needed = gen_calls

\* The exceptions of the generation, scoring, embedding and persistence calls.
UpstreamErrors == {"GeneratorError", "ScorerError", "EmbedderError", "MemoryError"}

\* C11: when a generation, scoring, embedding or persistence call fails, that
\* failure is what the caller gets, no PipelineResult is returned, the fallback
\* is not substituted, and nothing more happens in the invocation (no retry).
C11_FailurePropagates ==
    /\ [](failed_call \in UpstreamErrors =>
             /\ pc = "raised"
             /\ error = failed_call
             /\ result = NoResult
             /\ best_candidate.status # "limitation_protocol")
    /\ [][failed_call \notin UpstreamErrors]_vars

C11_Witness ==
    /\ failed_call = "GeneratorError"
    /\ pc = "raised"
    /\ attempt = 1
    /\ gen_calls = 2

\* C12: with no learner configured (self.rlmd is None) and every collaborator
\* answering, process_message completes normally on every path.
C12_NoLearnerCompletes ==
    (rlmd = "none" /\ logger_bound /\ failed_call = "none") =>
       error = "none" /\ pc # "raised"

\* C13: a failure of the learner while it absorbs a deviation does not end
\* the run: the record is appended and the loop goes on.
C13_LearnerFailureIgnored ==
    failed_call = "LearnerError" => error = "none" /\ pc # "raised"

\* C14: the fallback is the same text and posture whatever the adaptive
\* context (care and autonomy at the reference value, accuracy above it), and
\* producing it calls no generator, scorer, learner or store and runs no
\* acceptance check.
C14_FallbackFixed ==
    /\ [](best_candidate.status = "limitation_protocol" =>
             /\ best_candidate.text = LimitationText
             /\ best_candidate.triad = <<100, 100, 120>>
             /\ best_candidate.triad[1] = V_0[1]
             /\ best_candidate.triad[2] = V_0[2]
             /\ best_candidate.triad[3] > V_0[3]
             /\ persisted = <<>>)
    /\ [][best_candidate'.status = "limitation_protocol" =>
             UNCHANGED << gen_calls, score_calls, learned, persisted, notified,
                          trace, policy >>]_vars

C14_Witness ==
    /\ best_candidate.status = "limitation_protocol"
    /\ target_triad = <<80, 80, 100>>
    /\ input_triad = <<110, 100, 100>>
    /\ Len(attempt_history) = FacadeMaxAttempts

\* The learner call of the rejection being handled has been made.
LearnerJustCalled ==
    /\ rlmd = "configured"
    /\ \/ pc = "append"
       \/ pc = "raised" /\ error \in {"NameError", "LearnerError"}

\* C15: the deviation handed to the learner is V minus the reference posture
\* for a hard-bound rejection and V minus the target for a tension, proximity
\* or coherence rejection.
C15_DeviationReference ==
    LearnerJustCalled =>
       /\ Len(learned) = attempt + 1
       /\ policy.outcome = "hard_bound" =>
             learned[attempt + 1] = VecSub(output_triad, V_0)
       /\ policy.outcome \in {"tension", "proximity", "coherence"} =>
             learned[attempt + 1] = VecSub(output_triad, target_triad)

C15_Witness ==
    /\ pc = "append"
    /\ rlmd = "configured"
    /\ policy.outcome = "hard_bound"
    /\ target_triad = <<80, 80, 100>>
    /\ learned = << <<-30, 0, 0>> >>

\* C16: the tension check accepts (kindness, freedom, truth) exactly when
\* freedom > 1.0 implies truth >= 0.85, truth > 1.0 implies kindness >= 0.85
\* and kindness > 1.0 implies freedom >= 0.85; (1.1, 1.1, 0.9) passes and
\* (1.1, 1.1, 0.8) fails.
C16_TensionImplications ==
    pc = "tension" =>
       LET kindness == output_triad[1]
           freedom  == output_triad[2]
           truth    == output_triad[3]
       IN  /\ verdict = "pass" <=>
                 /\ freedom > 100 => truth >= 85
                 /\ truth > 100 => kindness >= 85
                 /\ kindness > 100 => freedom >= 85
           /\ output_triad = <<110, 110, 90>> => verdict = "pass"
           /\ output_triad = <<110, 110, 80>> => verdict = "fail"

C16_Witness ==
    /\ pc = "tension"
    /\ output_triad = <<110, 84, 100>>
    /\ verdict = "fail"

\* The squared distance, in hundredths, between the posture and the target.
DistanceSq ==
    (output_triad[1] - target_triad[1]) * (output_triad[1] - target_triad[1])
    + (output_triad[2] - target_triad[2]) * (output_triad[2] - target_triad[2])
    + (output_triad[3] - target_triad[3]) * (output_triad[3] - target_triad[3])

\* C17: the proximity check rejects exactly when the distance to the target
\* is strictly greater than 0.5; a distance of exactly 0.5 passes.
C17_ProximityBoundary ==
    /\ pc = "proximity" => (verdict = "fail" <=> DistanceSq > 2500)
    /\ (pc = "policy" /\ policy.outcome \notin {"hard_bound", "tension"}) =>
          (policy.outcome = "proximity" <=> DistanceSq > 2500)

C17_Witness ==
    /\ pc = "policy"
    /\ output_triad = <<110, 120, 100>>
    /\ target_triad = <<80, 80, 100>>
    /\ DistanceSq = 2500
    /\ policy.outcome = "accepted"

\* What the coherence check must reject, read off the input posture.
Incoherent ==
    \/ input_triad[3] > 100 /\ output_triad[3] < 90
    \/ input_triad[1] > 100 /\ output_triad[1] < 90

\* C18: the coherence check compares the output with the input posture, not
\* the target: it rejects exactly when input truth > 1.0 and output truth < 0.9,
\* or input kindness > 1.0 and output kindness < 0.9; 0.9 passes; freedom is
\* not constrained.
C18_CoherenceAgainstInput ==
    /\ pc = "coherence" => (verdict = "fail" <=> Incoherent)
    /\ (pc = "policy" /\ policy.outcome \in {"coherence", "accepted"}) =>
          (policy.outcome = "coherence" <=> Incoherent)

C18_Witness ==
    /\ pc = "policy"
    /\ input_triad = <<100, 100, 101>>
    /\ output_triad = <<100, 120, 90>>
    /\ target_triad = <<100, 100, 100>>
    /\ policy.outcome = "accepted"

\* C19: the prompt of attempt 0 carries no failure digest, the prompt of
\* attempt k > 0 carries the reason and the three scored components of
\* attempt k-1 only, and when attempt k starts the history holds exactly the
\* records of attempts 0..k-1, in order.
C19_OneStepDigest ==
    /\ (entry # "check" /\ gen_calls = attempt + 1) =>
          /\ attempt = 0 => failure_context = NoFailureContext
          /\ attempt > 0 =>
                /\ attempt_history[attempt].attempt = attempt - 1
                /\ failure_context.failure = attempt_history[attempt].failure
                /\ failure_context.triad = attempt_history[attempt].triad
    /\ Len(attempt_history) = attempt
    /\ \A i \in 1..Len(attempt_history) : attempt_history[i].attempt = i - 1

C19_Witness ==
    /\ pc = "score"
    /\ attempt = 2
    /\ attempt_history[1].failure = "hard_bound"
    /\ attempt_history[2].failure = "coherence"
    /\ failure_context = [failure |-> "coherence", triad |-> <<100, 100, 85>>]

\* The places in the record of steps where step `kind` of attempt k stands.
Steps(kind, k) == { i \in 1..Len(trace) : trace[i] = <<kind, k>> }

\* Attempt k has run its generation, scoring and validation to the end.
Validated(k) == k < attempt \/ (k = attempt /\ pc \in {"learn", "append", "returned",
                                                       "build", "done"})

\* C20: each attempt makes one generator call, then one scorer call on the
\* text, then one policy evaluation, in that order, and the generator call of
\* attempt k+1 comes after the evaluation, the learner call and the record
\* append of attempt k.
C20_SequentialAttempts ==
    /\ pc \in {"validate", "learn", "append"} =>
          output_triad = ResponderScores[response_text]
    /\ \A k \in 0..max_attempts :
          /\ \A kind \in {"generate", "score", "validate", "learn", "append"} :
                Cardinality(Steps(kind, k)) <= 1
          /\ \A i \in Steps("score", k) : i > 1 /\ trace[i - 1] = <<"generate", k>>
          /\ \A i \in Steps("validate", k) : i > 1 /\ trace[i - 1] = <<"score", k>>
          /\ \A i \in Steps("generate", k + 1) :
                /\ trace[i - 1] = <<"append", k>>
                /\ \E j \in Steps("validate", k) : j < i
                /\ rlmd = "configured" => \E j \in Steps("learn", k) : j < i - 1
          /\ (entry # "check" /\ entry # "none" /\ Validated(k) /\ k < max_attempts) =>
                /\ Cardinality(Steps("generate", k)) = 1
                /\ Cardinality(Steps("score", k)) = 1
                /\ Cardinality(Steps("validate", k)) = 1

C20_Witness ==
    /\ rlmd = "configured"
    /\ Steps("generate", 2) # {}
    /\ pc = "done"
    /\ best_candidate.status = "approved"

(* --------------------------------------------------------------- claim C21 *)

\* The positions of the calls of one operation in the integration record.
CallsOf(op) == { i \in 1..Len(integration) : integration[i].op = op }

\* An approved outcome of process_message whose stage 7 is over, no
\* collaborator having failed.
ApprovedIntegrated ==
    /\ entry = "process_message"
    /\ best_candidate.status = "approved"
    /\ failed_call = "none"
    /\ pc \in {"build", "done", "raised"}

\* C21: on an approved outcome, before the PipelineResult is returned, exactly
\* two exchanges are persisted under one thread (the processed input, then the
\* accepted text), then the context provider is notified once with the pair
\* (input posture, accepted output posture); a thread is created only when no
\* thread id came and a user key did.
C21_IntegrateOnApproved ==
    ApprovedIntegrated =>
       /\ persisted = << [role |-> "user", content |-> user_message],
                         [role |-> "assistant", content |-> best_candidate.text] >>
       /\ \E i, j \in CallsOf("integrate_experience") :
             /\ i < j
             /\ CallsOf("integrate_experience") = {i, j}
             /\ integration[i].role = "user"
             /\ integration[j].role = "assistant"
             /\ integration[i].thread_id = integration[j].thread_id
             /\ \E n \in CallsOf("update_from_interaction") :
                   /\ j < n
                   /\ CallsOf("update_from_interaction") = {n}
                   /\ integration[n].input_triad = input_triad
                   /\ integration[n].output_triad = best_candidate.triad
       /\ notified = << << input_triad, best_candidate.triad >> >>
       /\ Cardinality(CallsOf("create_thread")) <= 1
       /\ CallsOf("create_thread") # {} =>
             thread_id \in {"none", ""} /\ user_email \notin {"none", ""}

\* The same on a pipeline that has a learner: this part holds.
C21_WithLearner ==
    rlmd # "none" => C21_IntegrateOnApproved

(* --------------------------------------------------------------- claim C22 *)

RECURSIVE AloneFrom(_, _, _, _)
\* What _generate_and_validate gives to a call that has the pipeline to
\* itself, from attempt k on with the history h: the history it ends with,
\* the candidate returned and the exception raised, if any.
AloneFrom(m, t, h, k) ==
    IF k >= FacadeMaxAttempts
    THEN [history |-> h, error |-> "none", gen_calls |-> k,
          candidate |-> [status |-> "limitation_protocol",
                         text |-> LimitationText,
                         triad |-> <<100, 100, 120>>, candidate_id |-> -1]]
    ELSE LET last == IF h = << >> THEN NoFailureContext
                     ELSE [failure |-> h[Len(h)].failure, triad |-> h[Len(h)].triad]
             text == Generator(m, t, last, k)
             V == ResponderScores[text]
             p == EvaluatePolicy(V, t, UserScores[m])
         IN  IF p.outcome = "accepted"
             THEN [history |-> h, error |-> "none", gen_calls |-> k + 1,
                   candidate |-> [status |-> "approved", text |-> text,
                                  triad |-> V, candidate_id |-> k,
                                  attempts_needed |-> k + 1]]
             ELSE IF ~logger_bound
             THEN [history |-> h, error |-> "NameError", gen_calls |-> k + 1,
                   candidate |-> NoCandidate]
             ELSE AloneFrom(m, t,
                     Append(h, [attempt |-> k, response |-> text, triad |-> V,
                                failure |-> p.outcome]), k + 1)

\* The run of call i on its own.
Alone(i) == AloneFrom(inv[i].user_message, inv[i].target_triad, << >>, 0)

\* h is an initial part of g.
IsPrefix(h, g) == Len(h) <= Len(g) /\ h = SubSeq(g, 1, Len(h))

\* C22: two process_message calls interleaved on one pipeline do not
\* interfere: each has its own attempt history (its failure digest comes from
\* its own records only), each makes at most max_attempts generator calls, and
\* with a generator and a scorer that are functions of their arguments each
\* returns the status, text and attempts used it returns when run alone.
C22_InvocationsIndependent ==
    \A i \in Invocations :
       inv[i].pc # "idle" =>
          /\ inv[i].gen_calls <= FacadeMaxAttempts
          /\ IsPrefix(inv[i].attempt_history, Alone(i).history)
          /\ \A k \in 1..Len(inv[i].attempt_history) :
                inv[i].attempt_history[k].attempt = k - 1
          /\ inv[i].pc \in {"score", "validate", "learn", "append"} =>
                /\ Len(inv[i].attempt_history) = inv[i].attempt
                /\ inv[i].failure_context =
                      IF inv[i].attempt = 0 THEN NoFailureContext
                      ELSE [failure |-> inv[i].attempt_history[inv[i].attempt].failure,
                            triad |-> inv[i].attempt_history[inv[i].attempt].triad]
          /\ inv[i].pc \in {"returned", "build", "done"} =>
                /\ inv[i].best_candidate = Alone(i).candidate
                /\ inv[i].gen_calls = Alone(i).gen_calls
          /\ inv[i].pc = "done" =>
                /\ inv[i].result.finalizer_status = Alone(i).candidate.status
                /\ inv[i].result.response = Alone(i).candidate.text
                /\ inv[i].result.metadata.attempts_needed =
                      IF "attempts_needed" \in DOMAIN Alone(i).candidate
                      THEN Alone(i).candidate.attempts_needed
                      ELSE DefaultAttemptsNeeded
          /\ inv[i].pc = "raised" =>
                inv[i].error = IF Alone(i).error # "none" THEN Alone(i).error
                               ELSE "AttributeError"

\* Both calls are in their retry loops at once, each with rejections of its
\* own behind it, and the two histories differ.
C22_Witness ==
    /\ inv[1].pc = "score"
    /\ inv[2].pc = "score"
    /\ Len(inv[1].attempt_history) = 1
    /\ Len(inv[2].attempt_history) = 2
    /\ inv[1].attempt_history[1].response # inv[2].attempt_history[1].response

\* Both calls have returned, one approved at its second attempt and the
\* other at its third, their exchanges stored in the order the calls ended.
C22_BothReturned ==
    /\ inv[1].pc = "done"
    /\ inv[2].pc = "done"
    /\ inv[1].result.metadata.attempts_needed = 2
    /\ inv[2].result.metadata.attempts_needed = 3
    /\ Len(persisted) = 4
    /\ persisted[1].content = inv[2].user_message

====
